---- MODULE Spec2Model ----
(***************************************************************************)
(* Room membership and Peer-ID exchange of the eisc-video signaling server *)
(* (src/api/index.ts; src/unnamed/part_001 carries the same core).         *)
(*                                                                         *)
(* The handlers run to completion on the node event loop, so each inbound  *)
(* transport event is one atomic action.  The functions of the source are  *)
(* operators over a "world" record w = [rooms, sids, connected, emitted]   *)
(* that they read and mutate:                                              *)
(*   rooms     the Map<string, RoomData> of line 30                        *)
(*   sids      socket.io adapter: the transport rooms each socket joined   *)
(*   connected sockets whose transport connection is open                  *)
(*   emitted   per socket, the sequence of packets the server addressed    *)
(*             to it (plus a marker for a forced socket.disconnect)        *)
(***************************************************************************)
EXTENDS Integers, Sequences, FiniteSets, TLC

\* ------------------------------------------------------------ constants
MAX_USERS_PER_ROOM == 2
DEFAULT_ROOM == "main-room"

\* ------------------------------------------------------------ bounds
\* transport events processed in one run (connections, client events,
\* disconnects); socket ids are handed out in order, so at most MaxEvents
\* sockets exist
MaxEvents == 8

Sockets == 1..MaxEvents
\* payloads of registerPeerId; "" is a string a client can send
PeerIdValues == {"", "pA", "pB"}
\* payloads of mediaToggle
ToggleValues == {[type |-> "audio", enabled |-> FALSE, peerId |-> "pA"]}

VARIABLES rooms, sids, connected, emitted, handlers, nextSocket,
          announces, events, lastEvent

vars == <<rooms, sids, connected, emitted, handlers, nextSocket,
          announces, events, lastEvent>>

\* ------------------------------------------------------------ JS containers
\* Map: a function whose DOMAIN is the set of keys present
EmptyMap == [k \in {} |-> {}]
MapHas(m, k) == k \in DOMAIN m
MapSet(m, k, v) == [x \in (DOMAIN m) \cup {k} |-> IF x = k THEN v ELSE m[x]]
MapDelete(m, k) == [x \in (DOMAIN m) \ {k} |-> m[x]]

\* Set with insertion order (Array.from / forEach follow it): a sequence
\* without repetitions
SeqToSet(q) == {q[i] : i \in 1..Len(q)}
SetAdd(q, x) == IF x \in SeqToSet(q) THEN q ELSE Append(q, x)
SetDelete(q, x) == SelectSeq(q, LAMBDA y : y # x)

\* ------------------------------------------------------------ transport
Msg(ev, payload, src) == [ev |-> ev, payload |-> payload, src |-> src]
DisconnectMark == "socket.disconnect"

\* socket.emit(ev, payload): addressed to the socket itself
SocketEmit(w, socket, ev, payload, src) ==
  [w EXCEPT !.emitted[socket] = Append(@, Msg(ev, payload, src))]

\* socket.to(roomId).emit(ev, payload): every open socket joined to the
\* transport room except the sender
BroadcastTargets(w, socket, room) ==
  {t \in w.connected : t # socket /\ room \in w.sids[t]}

SocketToRoomEmit(w, socket, room, ev, payload, src) ==
  [w EXCEPT !.emitted = [t \in DOMAIN @ |->
      IF t \in BroadcastTargets(w, socket, room)
      THEN Append(@[t], Msg(ev, payload, src)) ELSE @[t]]]

\* socket.to(otherSocketId).emit(ev, payload): every open socket is joined to
\* the transport room named by its own id, so this reaches that one socket
\* (and nobody when it is the sender itself or is closed)
SocketToSocketEmit(w, socket, target, ev, payload, src) ==
  IF target \in w.connected /\ target # socket
  THEN [w EXCEPT !.emitted[target] = Append(@, Msg(ev, payload, src))]
  ELSE w

\* socket.join(room)
SocketJoin(w, socket, room) == [w EXCEPT !.sids[socket] = @ \cup {room}]

\* the transport closing a socket: it leaves every transport room
SocketClose(w, socket) ==
  [w EXCEPT !.connected = @ \ {socket}, !.sids[socket] = {}]

\* socket.disconnect(true), called by the server
SocketDisconnect(w, socket) ==
  SocketClose([w EXCEPT !.emitted[socket] =
                 Append(@, Msg(DisconnectMark, "", socket))], socket)

\* ------------------------------------------------------------ room management
NewRoom == [users |-> <<>>, peerIds |-> EmptyMap, peerIdsSent |-> EmptyMap]

getOrCreateRoom(w, roomId) ==
  IF ~MapHas(w.rooms, roomId)
  THEN [w EXCEPT !.rooms = MapSet(@, roomId, NewRoom)]
  ELSE w

\* mutant: the room is never removed from the registry
deleteRoomIfEmpty_keeps(w, roomId) == w

deleteRoomIfEmpty(w, roomId) ==
  IF MapHas(w.rooms, roomId) /\ Len(w.rooms[roomId].users) = 0
  THEN [w EXCEPT !.rooms = MapDelete(@, roomId)]
  ELSE w

\* mutant: the size of peerIds is returned instead of the size of users
getRoomUserCount_peerIds(rms, roomId) ==
  IF MapHas(rms, roomId) THEN Cardinality(DOMAIN rms[roomId].peerIds) ELSE 0

getRoomUserCount(rms, roomId) ==
  IF MapHas(rms, roomId) THEN Len(rms[roomId].users) ELSE 0

\* ------------------------------------------------------------ peer id exchange
\* mutant: line 101 written as otherPeerId === undefined (an empty string
\* counts as registered)
PeerIdTruthy_definedOnly(room, id) == MapHas(room.peerIds, id)

\* JS truthiness of room.peerIds.get(id): undefined and "" are falsy
PeerIdTruthy(room, id) == MapHas(room.peerIds, id) /\ room.peerIds[id] # ""

\* mutant: the forEach body without lines 134-150 (the announcer is never
\* sent the other's identifier)
ExchangeWithOther_noReverse(w, socket, roomId, myPeerId, otherSocketId) ==
  LET room == w.rooms[roomId]
      alreadySentToOther ==
        MapHas(room.peerIdsSent, otherSocketId)
        /\ socket \in room.peerIdsSent[otherSocketId]
  IN IF ~PeerIdTruthy(room, otherSocketId) \/ alreadySentToOther THEN w
     ELSE LET e == SocketToSocketEmit(w, socket, otherSocketId,
                                      "remotePeerId", myPeerId, socket)
              s0 == IF MapHas(room.peerIdsSent, socket)
                    THEN room.peerIdsSent[socket] ELSE {}
          IN [e EXCEPT !.rooms[roomId].peerIdsSent =
                MapSet(@, socket, s0 \cup {otherSocketId})]

\* mutant: the test of line 101 guards only lines 134-150, so the announcer's
\* identifier is sent to a member that has not registered one
ExchangeWithOther_noSkip(w, socket, roomId, myPeerId, otherSocketId) ==
  LET room == w.rooms[roomId]
      alreadySentToOther ==
        MapHas(room.peerIdsSent, otherSocketId)
        /\ socket \in room.peerIdsSent[otherSocketId]
      mine == IF MapHas(room.peerIdsSent, socket)
              THEN room.peerIdsSent[socket] ELSE {}
      w1 == IF ~alreadySentToOther
            THEN [SocketToSocketEmit(w, socket, otherSocketId,
                                     "remotePeerId", myPeerId, socket)
                    EXCEPT !.rooms[roomId].peerIdsSent =
                      MapSet(@, socket, mine \cup {otherSocketId})]
            ELSE w
  IN IF ~PeerIdTruthy(room, otherSocketId) \/ otherSocketId \in mine THEN w1
     ELSE [SocketEmit(w1, socket, "remotePeerId",
                      room.peerIds[otherSocketId], otherSocketId)
             EXCEPT !.rooms[roomId].peerIdsSent =
               MapSet(@, socket, mine \cup {otherSocketId})]

\* mutant: the forEach body without lines 115-131 (the other member is never
\* sent the announcer's identifier)
ExchangeWithOther_noForward(w, socket, roomId, myPeerId, otherSocketId) ==
  LET room == w.rooms[roomId]
      mine == IF MapHas(room.peerIdsSent, socket)
              THEN room.peerIdsSent[socket] ELSE {}
  IN IF ~PeerIdTruthy(room, otherSocketId) \/ otherSocketId \in mine THEN w
     ELSE [SocketEmit(w, socket, "remotePeerId",
                      room.peerIds[otherSocketId], otherSocketId)
             EXCEPT !.rooms[roomId].peerIdsSent =
               MapSet(@, socket, mine \cup {otherSocketId})]

\* mutant: a member skipped at line 101 is nevertheless marked as sent
ExchangeWithOther_marksSkipped(w, socket, roomId, myPeerId, otherSocketId) ==
  LET room == w.rooms[roomId]
      mine == IF MapHas(room.peerIdsSent, socket)
              THEN room.peerIdsSent[socket] ELSE {}
      marked == [w EXCEPT !.rooms[roomId].peerIdsSent =
                   MapSet(@, socket, mine \cup {otherSocketId})]
      alreadySentToOther ==
        MapHas(room.peerIdsSent, otherSocketId)
        /\ socket \in room.peerIdsSent[otherSocketId]
      w1 == IF ~alreadySentToOther
            THEN SocketToSocketEmit(marked, socket, otherSocketId,
                                    "remotePeerId", myPeerId, socket)
            ELSE w
  IN IF ~PeerIdTruthy(room, otherSocketId) THEN marked
     ELSE IF otherSocketId \in mine THEN w1
     ELSE [SocketEmit(w1, socket, "remotePeerId",
                      room.peerIds[otherSocketId], otherSocketId)
             EXCEPT !.rooms[roomId].peerIdsSent =
               MapSet(@, socket, mine \cup {otherSocketId})]

\* body of otherUsers.forEach (lines 98-151)
ExchangeWithOther(w, socket, roomId, myPeerId, otherSocketId) ==
  LET room == w.rooms[roomId]
  IN IF ~PeerIdTruthy(room, otherSocketId) THEN w
     ELSE
       LET otherPeerId == room.peerIds[otherSocketId]
           alreadySentToOther ==
             MapHas(room.peerIdsSent, otherSocketId)
             /\ socket \in room.peerIdsSent[otherSocketId]
           mySentSetDefined == MapHas(room.peerIdsSent, socket)
           alreadyReceivedFromOther ==
             mySentSetDefined /\ otherSocketId \in room.peerIdsSent[socket]
           \* lines 115-131
           w1 == IF ~alreadySentToOther
                 THEN LET e == SocketToSocketEmit(w, socket, otherSocketId,
                                            "remotePeerId", myPeerId, socket)
                          s0 == IF MapHas(room.peerIdsSent, socket)
                                THEN room.peerIdsSent[socket] ELSE {}
                      IN [e EXCEPT !.rooms[roomId].peerIdsSent =
                            MapSet(@, socket, s0 \cup {otherSocketId})]
                 ELSE w
           \* lines 134-150
           w2 == IF ~alreadyReceivedFromOther
                 THEN LET e == SocketEmit(w1, socket, "remotePeerId",
                                          otherPeerId, otherSocketId)
                          sent1 == e.rooms[roomId].peerIdsSent
                          s0 == IF mySentSetDefined /\ MapHas(sent1, socket)
                                THEN sent1[socket] ELSE {}
                      IN [e EXCEPT !.rooms[roomId].peerIdsSent =
                            MapSet(@, socket, s0 \cup {otherSocketId})]
                 ELSE w1
       IN w2

RECURSIVE ExchangeForEach(_, _, _, _, _)
ExchangeForEach(w, socket, roomId, myPeerId, otherUsers) ==
  IF otherUsers = <<>> THEN w
  ELSE ExchangeForEach(
         ExchangeWithOther(w, socket, roomId, myPeerId, Head(otherUsers)),
         socket, roomId, myPeerId, Tail(otherUsers))

\* mutant: the filter of line 90 written with === (keeps only the announcer)
exchangePeerIds_wrongFilter(w, socket, roomId, myPeerId) ==
  IF ~MapHas(w.rooms, roomId) THEN w
  ELSE
    LET room == w.rooms[roomId]
        w1 == IF ~MapHas(room.peerIdsSent, socket)
              THEN [w EXCEPT !.rooms[roomId].peerIdsSent = MapSet(@, socket, {})]
              ELSE w
        otherUsers == SelectSeq(room.users, LAMBDA id : id = socket)
    IN IF Len(otherUsers) = 0 THEN w1
       ELSE ExchangeForEach(w1, socket, roomId, myPeerId, otherUsers)

exchangePeerIds(w, socket, roomId, myPeerId) ==
  IF ~MapHas(w.rooms, roomId) THEN w
  ELSE
    LET room == w.rooms[roomId]
        \* lines 85-87
        w1 == IF ~MapHas(room.peerIdsSent, socket)
              THEN [w EXCEPT !.rooms[roomId].peerIdsSent = MapSet(@, socket, {})]
              ELSE w
        otherUsers == SelectSeq(room.users, LAMBDA id : id # socket)
    IN IF Len(otherUsers) = 0 THEN w1
       ELSE ExchangeForEach(w1, socket, roomId, myPeerId, otherUsers)

\* ------------------------------------------------------------ join room
\* mutant: the accepting branch without the socket.emit of line 187 (the
\* joiner itself is not told the count)
JoinAccepted_noSelf(w0, socket, roomId) ==
  LET a == [w0 EXCEPT !.rooms[roomId].users = SetAdd(@, socket)]
      j == SocketJoin(a, socket, roomId)
      n == Len(j.rooms[roomId].users)
  IN [w |-> SocketToRoomEmit(j, socket, roomId, "userCount", n, socket),
      ret |-> TRUE]

\* mutant: the accepting branch stores a new RoomData holding the members
\* (the recorded identifiers and sent-to sets are lost)
JoinAccepted_resets(w0, socket, roomId) ==
  LET a == [w0 EXCEPT !.rooms[roomId] =
              [NewRoom EXCEPT !.users = SetAdd(w0.rooms[roomId].users, socket)]]
      j == SocketJoin(a, socket, roomId)
      n == Len(j.rooms[roomId].users)
      b == SocketToRoomEmit(j, socket, roomId, "userCount", n, socket)
  IN [w |-> SocketEmit(b, socket, "userCount", n, socket), ret |-> TRUE]

\* the accepting branch of joinRoom (lines 177-190)
JoinAccepted(w0, socket, roomId) ==
  LET a == [w0 EXCEPT !.rooms[roomId].users = SetAdd(@, socket)]
      j == SocketJoin(a, socket, roomId)
      n == Len(j.rooms[roomId].users)
      b == SocketToRoomEmit(j, socket, roomId, "userCount", n, socket)
  IN [w |-> SocketEmit(b, socket, "userCount", n, socket), ret |-> TRUE]

\* the rejecting branch of joinRoom (lines 162-175)
JoinRejected(w0, socket) ==
  LET e == SocketEmit(w0, socket, "roomFull",
                      "Room is full. Only 2 users allowed.", socket)
  IN [w |-> SocketDisconnect(e, socket), ret |-> FALSE]

\* mutant: the capacity test of line 162 written with > instead of >=
joinRoom_offByOne(w, socket, roomId) ==
  LET w0 == getOrCreateRoom(w, roomId)
  IN IF Len(w0.rooms[roomId].users) > MAX_USERS_PER_ROOM
     THEN JoinRejected(w0, socket)
     ELSE JoinAccepted(w0, socket, roomId)

\* mutant: the socket is added to room.users before the capacity test
joinRoom_addBeforeCheck(w, socket, roomId) ==
  LET w0 == getOrCreateRoom(w, roomId)
      a == [w0 EXCEPT !.rooms[roomId].users = SetAdd(@, socket)]
  IN IF Len(a.rooms[roomId].users) > MAX_USERS_PER_ROOM
     THEN JoinRejected(a, socket)
     ELSE JoinAccepted(w0, socket, roomId)

\* mutant: the rejecting branch without socket.disconnect(true)
joinRoom_noDisconnect(w, socket, roomId) ==
  LET w0 == getOrCreateRoom(w, roomId)
  IN IF Len(w0.rooms[roomId].users) >= MAX_USERS_PER_ROOM
     THEN [w |-> SocketEmit(w0, socket, "roomFull",
                            "Room is full. Only 2 users allowed.", socket),
           ret |-> FALSE]
     ELSE JoinAccepted(w0, socket, roomId)

\* result of a call: the world after it and the value returned
joinRoom(w, socket, roomId) ==
  LET w0 == getOrCreateRoom(w, roomId)
      currentCount == Len(w0.rooms[roomId].users)
  IN IF currentCount >= MAX_USERS_PER_ROOM
     THEN JoinRejected(w0, socket)
     ELSE JoinAccepted(w0, socket, roomId)

\* ------------------------------------------------------------ register peer id
\* mutant: the room is looked up with getOrCreateRoom instead of the
\* rooms.get and early return of lines 195-199
registerPeerId_creates(w, socket, roomId, peerId) ==
  LET w0 == getOrCreateRoom(w, roomId)
  IN exchangePeerIds(
       [w0 EXCEPT !.rooms[roomId].peerIds = MapSet(@, socket, peerId)],
       socket, roomId, peerId)

\* mutant: an identifier already recorded is not overwritten (line 202 run
\* only on the first announce)
registerPeerId_keepsFirst(w, socket, roomId, peerId) ==
  IF ~MapHas(w.rooms, roomId) THEN w
  ELSE LET kept == IF MapHas(w.rooms[roomId].peerIds, socket)
                   THEN w.rooms[roomId].peerIds[socket] ELSE peerId
       IN exchangePeerIds(
            [w EXCEPT !.rooms[roomId].peerIds = MapSet(@, socket, kept)],
            socket, roomId, kept)

\* mutant: without the room.peerIds.set of line 202
registerPeerId_noRecord(w, socket, roomId, peerId) ==
  IF ~MapHas(w.rooms, roomId) THEN w
  ELSE exchangePeerIds(w, socket, roomId, peerId)

registerPeerId(w, socket, roomId, peerId) ==
  IF ~MapHas(w.rooms, roomId) THEN w
  ELSE exchangePeerIds(
         [w EXCEPT !.rooms[roomId].peerIds = MapSet(@, socket, peerId)],
         socket, roomId, peerId)

\* ------------------------------------------------------------ disconnect
\* mutant: without the room.peerIds.delete of line 231
CleanedRoom_keepsPeerId(room, socket) ==
  LET sent1 == MapDelete(room.peerIdsSent, socket)
  IN [users |-> SetDelete(room.users, socket),
      peerIds |-> room.peerIds,
      peerIdsSent |-> [k \in DOMAIN sent1 |-> sent1[k] \ {socket}]]

\* lines 229-237: the room record after the socket was cleaned out of it
CleanedRoom(room, socket) ==
  LET sent1 == MapDelete(room.peerIdsSent, socket)
  IN [users |-> SetDelete(room.users, socket),
      peerIds |-> MapDelete(room.peerIds, socket),
      peerIdsSent |-> [k \in DOMAIN sent1 |-> sent1[k] \ {socket}]]

\* mutant: lines 240 and 241 swapped (userCount before userDisconnected)
NotifyOthers_countFirst(w, socket, roomId) ==
  LET w2 == SocketToRoomEmit(w, socket, roomId, "userCount",
                             Len(w.rooms[roomId].users), socket)
  IN SocketToRoomEmit(w2, socket, roomId, "userDisconnected", socket, socket)

\* mutant: without the userCount emit of line 241
NotifyOthers_noCount(w, socket, roomId) ==
  SocketToRoomEmit(w, socket, roomId, "userDisconnected", socket, socket)

\* mutant: socket.broadcast.emit instead of socket.to(roomId).emit (every
\* open socket but the sender is notified, whatever its room)
NotifyOthers_global(w, socket, roomId) ==
  [w EXCEPT !.emitted = [t \in DOMAIN @ |->
      IF t \in w.connected /\ t # socket
      THEN @[t] \o <<Msg("userDisconnected", socket, socket),
                     Msg("userCount", Len(w.rooms[roomId].users), socket)>>
      ELSE @[t]]]

\* lines 239-241
NotifyOthers(w, socket, roomId) ==
  LET w2 == SocketToRoomEmit(w, socket, roomId, "userDisconnected", socket, socket)
  IN SocketToRoomEmit(w2, socket, roomId, "userCount",
                      Len(w.rooms[roomId].users), socket)

\* mutant: without the loop of lines 235-237 (other sent-to sets keep the id)
handleDisconnect_noPurge(w, socket, roomId) ==
  IF ~MapHas(w.rooms, roomId) THEN w
  ELSE
    LET room == w.rooms[roomId]
        kept == [users |-> SetDelete(room.users, socket),
                 peerIds |-> MapDelete(room.peerIds, socket),
                 peerIdsSent |-> MapDelete(room.peerIdsSent, socket)]
    IN deleteRoomIfEmpty(
         NotifyOthers([w EXCEPT !.rooms[roomId] = kept], socket, roomId), roomId)

\* mutant: without the deleteRoomIfEmpty call of line 244
handleDisconnect_noDelete(w, socket, roomId) ==
  IF ~MapHas(w.rooms, roomId) THEN w
  ELSE NotifyOthers(
         [w EXCEPT !.rooms[roomId] = CleanedRoom(w.rooms[roomId], socket)],
         socket, roomId)

\* mutant: the notifications of lines 240-241 sent before the cleanup of
\* lines 230-237 (the count still includes the leaving socket)
handleDisconnect_notifyFirst(w, socket, roomId) ==
  IF ~MapHas(w.rooms, roomId) THEN w
  ELSE
    LET n == NotifyOthers(w, socket, roomId)
    IN deleteRoomIfEmpty(
         [n EXCEPT !.rooms[roomId] = CleanedRoom(w.rooms[roomId], socket)],
         roomId)

handleDisconnect(w, socket, roomId) ==
  IF ~MapHas(w.rooms, roomId) THEN w
  ELSE
    LET w1 == [w EXCEPT !.rooms[roomId] = CleanedRoom(w.rooms[roomId], socket)]
    IN deleteRoomIfEmpty(NotifyOthers(w1, socket, roomId), roomId)

\* ------------------------------------------------------------ media toggle
\* mutant: io.to(roomId).emit instead of socket.to(roomId).emit (the sender
\* is sent its own toggle)
handleMediaToggle_echo(w, socket, roomId, data) ==
  [w EXCEPT !.emitted = [t \in DOMAIN @ |->
      IF t \in w.connected /\ roomId \in w.sids[t]
      THEN Append(@[t], Msg("mediaToggle", data, socket)) ELSE @[t]]]

handleMediaToggle(w, socket, roomId, data) ==
  SocketToRoomEmit(w, socket, roomId, "mediaToggle", data, socket)

\* ------------------------------------------------------------ legacy variant
\* src/unnamed/part_000: rooms is a Record<string, Set<string>>, peerIds one
\* global Record<socketId, peerId>, and there is no sent-to bookkeeping.  Its
\* handlers are operators over a world lw = [rooms, peerIds, sids, connected,
\* emitted].
MAX_PEERS_PER_ROOM == 2

\* io.to(otherId).emit(ev, payload): the open socket with that id
IoToSocketEmit(lw, target, ev, payload, src) ==
  IF target \in lw.connected
  THEN [lw EXCEPT !.emitted[target] = Append(@, Msg(ev, payload, src))]
  ELSE lw

\* lines 30-49: the connection callback up to socket.join
LegacyConnection(lw, socket, roomId) ==
  LET w0 == IF ~MapHas(lw.rooms, roomId)
            THEN [lw EXCEPT !.rooms = MapSet(@, roomId, <<>>)] ELSE lw
      currentPeerCount == Len(w0.rooms[roomId])
  IN IF currentPeerCount >= MAX_PEERS_PER_ROOM
     THEN [w |-> SocketDisconnect(
                   SocketEmit(w0, socket, "roomFull",
                              "Room is full. Only 2 users allowed.", socket),
                   socket),
           ret |-> FALSE]
     ELSE [w |-> SocketJoin([w0 EXCEPT !.rooms[roomId] = SetAdd(@, socket)],
                            socket, roomId),
           ret |-> TRUE]

\* mutant: the forEach body without the io.to(otherId).emit of line 68
LegacyExchange_oneWay(lw, socket, peerId, otherId) ==
  IF MapHas(lw.peerIds, otherId) /\ lw.peerIds[otherId] # ""
  THEN SocketEmit(lw, socket, "remotePeerId", lw.peerIds[otherId], otherId)
  ELSE lw

\* lines 62-71: body of otherPeersInRoom.forEach
LegacyExchange(lw, socket, peerId, otherId) ==
  IF MapHas(lw.peerIds, otherId) /\ lw.peerIds[otherId] # ""
  THEN IoToSocketEmit(
         SocketEmit(lw, socket, "remotePeerId", lw.peerIds[otherId], otherId),
         otherId, "remotePeerId", peerId, socket)
  ELSE lw

RECURSIVE LegacyForEach(_, _, _, _)
LegacyForEach(lw, socket, peerId, others) ==
  IF others = <<>> THEN lw
  ELSE LegacyForEach(LegacyExchange(lw, socket, peerId, Head(others)),
                     socket, peerId, Tail(others))

\* lines 56-72; Array.from(rooms[roomId]) throws when the room is gone, after
\* the identifier was stored
LegacyRegisterPeerId(lw, socket, roomId, peerId) ==
  LET w1 == [lw EXCEPT !.peerIds = MapSet(@, socket, peerId)]
  IN IF ~MapHas(w1.rooms, roomId) THEN w1
     ELSE LegacyForEach(w1, socket, peerId,
                        SelectSeq(w1.rooms[roomId], LAMBDA id : id # socket))

\* lines 79-98
LegacyDisconnect(lw, socket, roomId) ==
  IF ~MapHas(lw.rooms, roomId) THEN lw
  ELSE
    LET w1 == [lw EXCEPT !.rooms[roomId] = SetDelete(@, socket),
                         !.peerIds = MapDelete(@, socket)]
        w2 == SocketToRoomEmit(w1, socket, roomId,
                               "userDisconnected", socket, socket)
    IN IF Len(w2.rooms[roomId]) = 0
       THEN [w2 EXCEPT !.rooms = MapDelete(@, roomId)]
       ELSE w2

\* ------------------------------------------------------------ state machine
\* rooms      the registry
\* sids, connected, emitted   the transport (see the head of the module)
\* handlers   sockets whose event handlers were registered (lines 298-311)
\* nextSocket the id the transport gives to the next connection
\* announces  per socket, the registerPeerId events processed for it
\* events     transport events processed so far
\* lastEvent  the event processed last
World == [rooms |-> rooms, sids |-> sids, connected |-> connected,
          emitted |-> emitted]

Commit(w) ==
  /\ rooms' = w.rooms
  /\ sids' = w.sids
  /\ connected' = w.connected
  /\ emitted' = w.emitted

Event(name, socket, payload) ==
  [name |-> name, socket |-> socket, payload |-> payload]

Init ==
  /\ rooms = EmptyMap
  /\ sids = [s \in Sockets |-> {}]
  /\ connected = {}
  /\ emitted = [s \in Sockets |-> <<>>]
  /\ handlers = {}
  /\ nextSocket = 1
  /\ announces = [s \in Sockets |-> 0]
  /\ events = 0
  /\ lastEvent = Event("init", 0, "")

\* mutant: without the early return of lines 294-296 (the handlers are
\* registered for a rejected socket too)
Connection_alwaysRegisters ==
  /\ events < MaxEvents
  /\ LET socket == nextSocket
         r == joinRoom([World EXCEPT !.connected = @ \cup {socket}],
                       socket, DEFAULT_ROOM)
     IN /\ Commit(r.w)
        /\ handlers' = handlers \cup {socket}
        /\ lastEvent' = Event(IF r.ret THEN "join" ELSE "joinRejected", socket, "")
  /\ nextSocket' = nextSocket + 1
  /\ events' = events + 1
  /\ UNCHANGED announces

\* io.on("connection"): the transport hands over a new open socket with a
\* fresh id; the handlers are registered only when joinRoom returned true
Connection ==
  /\ events < MaxEvents
  /\ LET socket == nextSocket
         r == joinRoom([World EXCEPT !.connected = @ \cup {socket}],
                       socket, DEFAULT_ROOM)
     IN /\ Commit(r.w)
        /\ handlers' = IF r.ret THEN handlers \cup {socket} ELSE handlers
        /\ lastEvent' = Event(IF r.ret THEN "join" ELSE "joinRejected", socket, "")
  /\ nextSocket' = nextSocket + 1
  /\ events' = events + 1
  /\ UNCHANGED announces

\* socket.on("registerPeerId")
OnRegisterPeerId(socket, peerId) ==
  /\ events < MaxEvents
  /\ socket \in handlers
  /\ socket \in connected
  /\ Commit(registerPeerId(World, socket, DEFAULT_ROOM, peerId))
  /\ announces' = [announces EXCEPT ![socket] = @ + 1]
  /\ events' = events + 1
  /\ lastEvent' = Event("registerPeerId", socket, peerId)
  /\ UNCHANGED <<handlers, nextSocket>>

\* socket.on("mediaToggle")
OnMediaToggle(socket, data) ==
  /\ events < MaxEvents
  /\ socket \in handlers
  /\ socket \in connected
  /\ Commit(handleMediaToggle(World, socket, DEFAULT_ROOM, data))
  /\ events' = events + 1
  /\ lastEvent' = Event("mediaToggle", socket, "")
  /\ UNCHANGED <<handlers, nextSocket, announces>>

\* socket.on("disconnect"): the transport has closed the socket and removed
\* it from its transport rooms before the handler runs
OnDisconnect(socket) ==
  /\ events < MaxEvents
  /\ socket \in handlers
  /\ socket \in connected
  /\ Commit(handleDisconnect(SocketClose(World, socket), socket, DEFAULT_ROOM))
  /\ events' = events + 1
  /\ lastEvent' = Event("disconnect", socket, "")
  /\ UNCHANGED <<handlers, nextSocket, announces>>

\* a registerPeerId that was queued before the disconnect and is processed
\* after it
LateRegisterPeerId(socket, peerId) ==
  /\ events < MaxEvents
  /\ socket \in handlers
  /\ socket \notin connected
  /\ Commit(registerPeerId(World, socket, DEFAULT_ROOM, peerId))
  /\ announces' = [announces EXCEPT ![socket] = @ + 1]
  /\ events' = events + 1
  /\ lastEvent' = Event("lateRegisterPeerId", socket, peerId)
  /\ UNCHANGED <<handlers, nextSocket>>

\* a disconnect delivered a second time for a socket already removed
DuplicateDisconnect(socket) ==
  /\ events < MaxEvents
  /\ socket \in handlers
  /\ socket \notin connected
  /\ Commit(handleDisconnect(World, socket, DEFAULT_ROOM))
  /\ events' = events + 1
  /\ lastEvent' = Event("duplicateDisconnect", socket, "")
  /\ UNCHANGED <<handlers, nextSocket, announces>>

Next ==
  \/ Connection
  \/ \E s \in Sockets, p \in PeerIdValues : OnRegisterPeerId(s, p)
  \/ \E s \in Sockets, d \in ToggleValues : OnMediaToggle(s, d)
  \/ \E s \in Sockets : OnDisconnect(s)

\* the server behind socket.io: one disconnect per socket, nothing after it
Spec == Init /\ [][Next]_vars

NextLate ==
  \/ Connection
  \/ \E s \in Sockets, p \in PeerIdValues : OnRegisterPeerId(s, p)
  \/ \E s \in Sockets, d \in ToggleValues : OnMediaToggle(s, d)
  \/ \E s \in Sockets : OnDisconnect(s)
  \/ \E s \in Sockets, p \in PeerIdValues : LateRegisterPeerId(s, p)
  \/ \E s \in Sockets : DuplicateDisconnect(s)

\* the same server under a transport with at-least-once delivery: a queued
\* registerPeerId or a second disconnect may reach the handlers of a socket
\* whose disconnect was already processed
SpecLate == Init /\ [][NextLate]_vars

\* ------------------------------------------------------------ several rooms
\* joinRoom, registerPeerId, handleDisconnect and handleMediaToggle take the
\* room key as a parameter; io.on("connection") passes DEFAULT_ROOM to all of
\* them.  Here the handlers of a connection are given one of two room keys,
\* the key being the one its socket joined.
ROOM_2 == "room-2"
RoomKeys == {DEFAULT_ROOM, ROOM_2}
\* events processed in one run with two room keys
MaxRoomEvents == MaxEvents - 3

\* the roomId captured by the handlers of an open socket that joined
RoomOfSocket(s) == CHOOSE r \in RoomKeys : r \in sids[s]

ConnectionTo(roomId) ==
  /\ events < MaxRoomEvents
  /\ LET socket == nextSocket
         r == joinRoom([World EXCEPT !.connected = @ \cup {socket}],
                       socket, roomId)
     IN /\ Commit(r.w)
        /\ handlers' = IF r.ret THEN handlers \cup {socket} ELSE handlers
        /\ lastEvent' =
             Event(IF r.ret THEN "join" ELSE "joinRejected", socket, roomId)
  /\ nextSocket' = nextSocket + 1
  /\ events' = events + 1
  /\ UNCHANGED announces

RoomRegisterPeerId(socket, peerId) ==
  /\ events < MaxRoomEvents
  /\ socket \in handlers
  /\ socket \in connected
  /\ Commit(registerPeerId(World, socket, RoomOfSocket(socket), peerId))
  /\ announces' = [announces EXCEPT ![socket] = @ + 1]
  /\ events' = events + 1
  /\ lastEvent' = Event("registerPeerId", socket, peerId)
  /\ UNCHANGED <<handlers, nextSocket>>

RoomMediaToggle(socket, data) ==
  /\ events < MaxRoomEvents
  /\ socket \in handlers
  /\ socket \in connected
  /\ Commit(handleMediaToggle(World, socket, RoomOfSocket(socket), data))
  /\ events' = events + 1
  /\ lastEvent' = Event("mediaToggle", socket, "")
  /\ UNCHANGED <<handlers, nextSocket, announces>>

RoomDisconnect(socket) ==
  /\ events < MaxRoomEvents
  /\ socket \in handlers
  /\ socket \in connected
  /\ Commit(handleDisconnect(SocketClose(World, socket), socket,
                             RoomOfSocket(socket)))
  /\ events' = events + 1
  /\ lastEvent' = Event("disconnect", socket, "")
  /\ UNCHANGED <<handlers, nextSocket, announces>>

NextRooms ==
  \/ \E r \in RoomKeys : ConnectionTo(r)
  \/ \E s \in Sockets, p \in PeerIdValues : RoomRegisterPeerId(s, p)
  \/ \E s \in Sockets, d \in ToggleValues : RoomMediaToggle(s, d)
  \/ \E s \in Sockets : RoomDisconnect(s)

SpecRooms == Init /\ [][NextRooms]_vars

\* the world after the handler of one transport event has run
HandleEvent(w, name, socket, roomId, peerId, data) ==
  CASE name = "join" ->
         joinRoom([w EXCEPT !.connected = @ \cup {socket}], socket, roomId).w
    [] name = "registerPeerId" -> registerPeerId(w, socket, roomId, peerId)
    [] name = "mediaToggle" -> handleMediaToggle(w, socket, roomId, data)
    [] name = "disconnect" ->
         handleDisconnect(SocketClose(w, socket), socket, roomId)
EventNames == {"join", "registerPeerId", "mediaToggle", "disconnect"}

\* ------------------------------------------------------------ rejected sockets
\* the socket was refused by joinRoom: the first packet it was sent is
\* roomFull
WasRejected(s) ==
  /\ Len(emitted[s]) >= 1
  /\ emitted[s][1] = Msg("roomFull", "Room is full. Only 2 users allowed.", s)
SocketEventNames == {"registerPeerId", "mediaToggle", "disconnect"}

\* an event of a socket is given to the listener registered for it by
\* socket.on (lines 299-311); without a listener nothing runs
Dispatch(w, socket, name, peerId, data) ==
  IF socket \notin handlers THEN w
  ELSE HandleEvent(w, name, socket, DEFAULT_ROOM, peerId, data)

\* an event of a socket that joinRoom refused: the disconnect that follows
\* socket.disconnect(true), or a client event still in flight
RejectedSocketEvent(socket, name, peerId, data) ==
  /\ events < MaxEvents
  /\ WasRejected(socket)
  /\ Commit(Dispatch(World, socket, name, peerId, data))
  /\ events' = events + 1
  /\ lastEvent' =
       Event(name, socket, IF name = "registerPeerId" THEN peerId ELSE "")
  /\ UNCHANGED <<handlers, nextSocket, announces>>

NextRejected ==
  \/ Connection
  \/ \E s \in Sockets, p \in PeerIdValues : OnRegisterPeerId(s, p)
  \/ \E s \in Sockets, d \in ToggleValues : OnMediaToggle(s, d)
  \/ \E s \in Sockets : OnDisconnect(s)
  \/ \E s \in Sockets, n \in SocketEventNames, p \in PeerIdValues,
        d \in ToggleValues : RejectedSocketEvent(s, n, p, d)

\* the server with the events of refused sockets included
SpecRejected == Init /\ [][NextRejected]_vars

\* ------------------------------------------------------------ observations
InRegistry(roomId) == MapHas(rooms, roomId)
Members(roomId) == IF InRegistry(roomId) THEN SeqToSet(rooms[roomId].users) ELSE {}
HasPeerId(roomId, s) == InRegistry(roomId) /\ MapHas(rooms[roomId].peerIds, s)

\* the packets of one event name addressed to socket r
EventsOf(r, ev) == SelectSeq(emitted[r], LAMBDA m : m.ev = ev)
\* the remotePeerId packets addressed to r that carry the identifier of s
RemoteFrom(r, s) ==
  SelectSeq(emitted[r], LAMBDA m : m.ev = "remotePeerId" /\ m.src = s)
Delivered(r, s) == Len(RemoteFrom(r, s))

\* sockets whose connection was rejected by joinRoom
Rejected == {s \in Sockets : s < nextSocket /\ s \notin handlers}

\* the step being taken is the handling of the named event for socket s
StepIs(name, s) == lastEvent'.name = name /\ lastEvent'.socket = s
RoomFullMsg(s) == Msg("roomFull", "Room is full. Only 2 users allowed.", s)

\* ------------------------------------------------------------ claims

\* C1: for every ordered pair (sender S, receiver R) of connections, R is
\* delivered a remotePeerId carrying S's identifier at most once, whatever
\* the sequence of join / announce / leave events and however often S or R
\* announce.
C1_AtMostOncePerDirection ==
  \A r \in Sockets : \A s \in Sockets \ {r} : Delivered(r, s) <= 1

\* C2 as stated: when A and B are both members and each has announced an
\* identifier exactly once, A has received exactly one remotePeerId carrying
\* B's identifier and B exactly one carrying A's identifier.
C2_ExactlyOneAfterBothAnnounced ==
  \A a \in Members(DEFAULT_ROOM) : \A b \in Members(DEFAULT_ROOM) \ {a} :
    (announces[a] = 1 /\ announces[b] = 1)
      => RemoteFrom(a, b) =
           <<Msg("remotePeerId", rooms[DEFAULT_ROOM].peerIds[b], b)>>

\* C2 as amended: the same, for identifiers that are not the empty string.
C2_ExactlyOneNonEmpty ==
  \A a \in Members(DEFAULT_ROOM) : \A b \in Members(DEFAULT_ROOM) \ {a} :
    (announces[a] = 1 /\ announces[b] = 1
       /\ PeerIdTruthy(rooms[DEFAULT_ROOM], a)
       /\ PeerIdTruthy(rooms[DEFAULT_ROOM], b))
      => RemoteFrom(a, b) =
           <<Msg("remotePeerId", rooms[DEFAULT_ROOM].peerIds[b], b)>>

C2_Witness ==
  /\ Members(DEFAULT_ROOM) = {1, 2}
  /\ announces[1] = 1 /\ announces[2] = 1
  /\ lastEvent = Event("registerPeerId", 1, "pA")
  /\ RemoteFrom(1, 2) = <<Msg("remotePeerId", "pB", 2)>>
  /\ RemoteFrom(2, 1) = <<Msg("remotePeerId", "pA", 1)>>

\* C3 as stated: delivery is never missing: two distinct current members
\* that both have a recorded identifier have each been delivered the other's
\* identifier.
C3_NeverMissing ==
  \A a \in Members(DEFAULT_ROOM) : \A b \in Members(DEFAULT_ROOM) \ {a} :
    (HasPeerId(DEFAULT_ROOM, a) /\ HasPeerId(DEFAULT_ROOM, b))
      => Delivered(a, b) >= 1

\* C3 as amended: the same, when both recorded identifiers are not the empty
\* string.
C3_NeverMissingNonEmpty ==
  \A a \in Members(DEFAULT_ROOM) : \A b \in Members(DEFAULT_ROOM) \ {a} :
    (PeerIdTruthy(rooms[DEFAULT_ROOM], a) /\ PeerIdTruthy(rooms[DEFAULT_ROOM], b))
      => Delivered(a, b) >= 1

C3_Witness ==
  /\ InRegistry(DEFAULT_ROOM)
  /\ rooms[DEFAULT_ROOM].users = <<2, 3>>
  /\ PeerIdTruthy(rooms[DEFAULT_ROOM], 2)
  /\ PeerIdTruthy(rooms[DEFAULT_ROOM], 3)
  /\ announces[2] = 1 /\ announces[3] = 1
  /\ lastEvent.name = "registerPeerId"
  /\ Delivered(2, 3) = 1 /\ Delivered(3, 2) = 1

\* C4: in every reachable state every room's member set holds at most 2
\* connections.
C4_Capacity ==
  \A roomId \in DOMAIN rooms : Len(rooms[roomId].users) <= MAX_USERS_PER_ROOM

C4_Witness ==
  /\ InRegistry(DEFAULT_ROOM)
  /\ Len(rooms[DEFAULT_ROOM].users) = MAX_USERS_PER_ROOM
  /\ lastEvent.name = "joinRejected"

\* C5: a join attempt on a room that already holds two members is rejected
\* and changes nothing: the registry (members, identifiers, sent-to sets) is
\* as before and nobody is sent a userCount.
C5_RejectedJoinChangesNothing ==
  [][(nextSocket' = nextSocket + 1
      /\ getRoomUserCount(rooms, DEFAULT_ROOM) >= 2)
     => /\ StepIs("joinRejected", nextSocket)
        /\ handlers' = handlers
        /\ rooms' = rooms
        /\ \A t \in Sockets : EventsOf(t, "userCount")' = EventsOf(t, "userCount")
    ]_vars

C5_Witness ==
  /\ lastEvent.name = "joinRejected"
  /\ Members(DEFAULT_ROOM) = {1, 2}
  /\ HasPeerId(DEFAULT_ROOM, 1)
  /\ MapHas(rooms[DEFAULT_ROOM].peerIdsSent, 2)
  /\ rooms[DEFAULT_ROOM].peerIdsSent[2] = {1}

\* C6: when the room holds A and B and C attempts to join, C receives
\* roomFull exactly once, before the server disconnects it, and nothing
\* else, and the membership is still {A, B} afterwards.
C6_RoomFullThenDisconnect ==
  /\ [](\A c \in Rejected :
          /\ emitted[c] = <<RoomFullMsg(c), Msg(DisconnectMark, "", c)>>
          /\ c \notin connected)
  /\ [][\A c \in Sockets : StepIs("joinRejected", c)
          => /\ Len(rooms[DEFAULT_ROOM].users) = 2
             /\ rooms'[DEFAULT_ROOM].users = rooms[DEFAULT_ROOM].users
             /\ c \notin Members(DEFAULT_ROOM)'
             /\ c \in Rejected']_vars

C6_Witness ==
  /\ lastEvent.name = "joinRejected"
  /\ lastEvent.socket = 3
  /\ rooms[DEFAULT_ROOM].users = <<1, 2>>
  /\ Len(emitted[3]) = 2

\* C7: between events a room key is in the registry if and only if the room
\* has a member: the key is present exactly while some socket joined and has
\* not been removed, and a room that is present has a non-empty member set.
C7_RegistryIffNonEmpty ==
  /\ InRegistry(DEFAULT_ROOM) <=> (handlers \cap connected # {})
  /\ \A roomId \in DOMAIN rooms : Len(rooms[roomId].users) > 0
  /\ Members(DEFAULT_ROOM) = handlers \cap connected

C7_Witness ==
  /\ ~InRegistry(DEFAULT_ROOM)
  /\ lastEvent.name \in {"duplicateDisconnect", "lateRegisterPeerId"}
  /\ handlers = {1, 2}

\* C8: after the last member leaves, the room key is absent and memberCount
\* is 0; a later join with that key is accepted into a brand-new room:
\* one member, no recorded identifier, no sent-to entry.
C8_EmptyRoomDeletedAndFresh ==
  [][/\ \A c \in Sockets :
          (StepIs("disconnect", c) /\ Members(DEFAULT_ROOM) = {c})
            => /\ ~InRegistry(DEFAULT_ROOM)'
               /\ getRoomUserCount(rooms', DEFAULT_ROOM) = 0
     /\ (nextSocket' = nextSocket + 1 /\ ~InRegistry(DEFAULT_ROOM))
          => /\ StepIs("join", nextSocket)
             /\ nextSocket \in handlers'
             /\ getRoomUserCount(rooms', DEFAULT_ROOM) = 1
             /\ rooms'[DEFAULT_ROOM] =
                  [users |-> <<nextSocket>>, peerIds |-> EmptyMap,
                   peerIdsSent |-> EmptyMap]
    ]_vars

C8_Witness ==
  /\ lastEvent.name = "join"
  /\ lastEvent.socket = 3
  /\ rooms[DEFAULT_ROOM].users = <<3>>
  /\ Delivered(1, 2) >= 1

\* C9: a leave for a connection that is not a member (a second disconnect
\* for a connection already removed) is a no-op: no room state changes and
\* no packet is sent to anyone.
C9_LeaveIdempotent ==
  [][\A c \in Sockets : StepIs("duplicateDisconnect", c)
       => (rooms' = rooms /\ emitted' = emitted)]_vars

\* C10: immediately after the leave of a member c, c is not in the member
\* set, has no recorded identifier, owns no sent-to set and occurs in no
\* other sent-to set, and the identifiers recorded for the others are
\* unchanged.
C10_LeaveCleansBookkeeping ==
  [][\A c \in Sockets :
       (StepIs("disconnect", c) /\ c \in Members(DEFAULT_ROOM)
          /\ InRegistry(DEFAULT_ROOM)')
         => LET before == rooms[DEFAULT_ROOM]
                after == rooms'[DEFAULT_ROOM]
            IN /\ c \notin SeqToSet(after.users)
               /\ ~MapHas(after.peerIds, c)
               /\ ~MapHas(after.peerIdsSent, c)
               /\ \A k \in DOMAIN after.peerIdsSent : c \notin after.peerIdsSent[k]
               /\ DOMAIN after.peerIds = (DOMAIN before.peerIds) \ {c}
               /\ \A k \in DOMAIN after.peerIds : after.peerIds[k] = before.peerIds[k]
    ]_vars

C10_Witness ==
  /\ lastEvent.name = "disconnect"
  /\ lastEvent.socket = 1
  /\ Members(DEFAULT_ROOM) = {2}
  /\ Delivered(1, 2) >= 1
  /\ Delivered(2, 1) >= 1
  /\ HasPeerId(DEFAULT_ROOM, 2)

\* C11: after a successful exchange between members X and O (each has been
\* delivered the other's identifier), a further announce by X with the same
\* identifier delivers no additional remotePeerId to O, whichever of the two
\* made the announce that completed the exchange.
C11_ReannounceDeliversNothingMore ==
  [][\A x \in Sockets : \A o \in Sockets \ {x} :
       (/\ StepIs("registerPeerId", x)
        /\ {x, o} \subseteq Members(DEFAULT_ROOM)
        /\ Delivered(x, o) >= 1 /\ Delivered(o, x) >= 1
        /\ PeerIdTruthy(rooms[DEFAULT_ROOM], x)
        /\ PeerIdTruthy(rooms[DEFAULT_ROOM], o)
        /\ lastEvent'.payload = rooms[DEFAULT_ROOM].peerIds[x])
         => emitted'[o] = emitted[o]
    ]_vars

\* C12: after a completed exchange between A and B, B leaves and a new
\* connection C joins; once A has announced again and C has announced, in
\* either order, C has received A's identifier exactly once and A has
\* received C's identifier exactly once.
C12_FreshExchangeWithNewPeer ==
  \A a \in Members(DEFAULT_ROOM) : \A c \in Members(DEFAULT_ROOM) \ {a} :
    (/\ \E b \in handlers \ connected :
          b < c /\ Delivered(a, b) = 1 /\ Delivered(b, a) = 1
     /\ announces[a] = 2 /\ announces[c] = 1
     /\ PeerIdTruthy(rooms[DEFAULT_ROOM], a)
     /\ PeerIdTruthy(rooms[DEFAULT_ROOM], c))
      => /\ RemoteFrom(c, a) =
              <<Msg("remotePeerId", rooms[DEFAULT_ROOM].peerIds[a], a)>>
         /\ RemoteFrom(a, c) =
              <<Msg("remotePeerId", rooms[DEFAULT_ROOM].peerIds[c], c)>>

\* the registry holds DEFAULT_ROOM only, with these members, identifiers and
\* sent-to sets
RoomIs(users, peerIds, peerIdsSent) ==
  rooms = (DEFAULT_ROOM :>
             [users |-> users, peerIds |-> peerIds, peerIdsSent |-> peerIdsSent])
\* the packets addressed so far to sockets 1 and 2; no other socket has any
EmittedIs(a, b) ==
  emitted = [s \in Sockets |-> IF s = 1 THEN a ELSE IF s = 2 THEN b ELSE <<>>]
UserCountMsg(n, s) == Msg("userCount", n, s)

\* the states along the reference trace; A is socket 1 and B socket 2
Ref0 == rooms = EmptyMap /\ EmittedIs(<<>>, <<>>) /\ handlers = {}
Ref1 ==
  /\ RoomIs(<<1>>, EmptyMap, EmptyMap)
  /\ EmittedIs(<<UserCountMsg(1, 1)>>, <<>>)
  /\ handlers = {1} /\ connected = {1}
Ref2 ==
  /\ RoomIs(<<1, 2>>, EmptyMap, EmptyMap)
  /\ EmittedIs(<<UserCountMsg(1, 1), UserCountMsg(2, 2)>>,
               <<UserCountMsg(2, 2)>>)
  /\ handlers = {1, 2} /\ connected = {1, 2}
Ref3 ==
  /\ RoomIs(<<1, 2>>, 1 :> "pA", 1 :> {})
  /\ EmittedIs(<<UserCountMsg(1, 1), UserCountMsg(2, 2)>>,
               <<UserCountMsg(2, 2)>>)
  /\ handlers = {1, 2} /\ connected = {1, 2}
Ref4 ==
  /\ RoomIs(<<1, 2>>, 1 :> "pA" @@ 2 :> "pB", 1 :> {} @@ 2 :> {1})
  /\ EmittedIs(<<UserCountMsg(1, 1), UserCountMsg(2, 2),
                 Msg("remotePeerId", "pB", 2)>>,
               <<UserCountMsg(2, 2), Msg("remotePeerId", "pA", 1)>>)
  /\ handlers = {1, 2} /\ connected = {1, 2}
Ref5 ==
  /\ RoomIs(<<2>>, 2 :> "pB", 2 :> {})
  /\ EmittedIs(<<UserCountMsg(1, 1), UserCountMsg(2, 2),
                 Msg("remotePeerId", "pB", 2)>>,
               <<UserCountMsg(2, 2), Msg("remotePeerId", "pA", 1),
                 Msg("userDisconnected", 1, 1), UserCountMsg(1, 1)>>)
  /\ handlers = {1, 2} /\ connected = {2}

\* C13: the reference trace holds exactly: from the empty room A joins (A
\* gets userCount 1), B joins (both get userCount 2), A announces pA (nothing
\* is delivered), B announces pB (A gets remotePeerId pB and B gets
\* remotePeerId pA, once each), A leaves (B gets userDisconnected A then
\* userCount 1, A nothing); the room remains with B only, and no other
\* packet is sent along the trace.
C13_ReferenceTrace ==
  [][/\ (Ref0 /\ nextSocket' = nextSocket + 1) => Ref1'
     /\ (Ref1 /\ nextSocket' = nextSocket + 1) => Ref2'
     /\ (Ref2 /\ lastEvent' = Event("registerPeerId", 1, "pA")) => Ref3'
     /\ (Ref3 /\ lastEvent' = Event("registerPeerId", 2, "pB")) => Ref4'
     /\ (Ref4 /\ StepIs("disconnect", 1)) => Ref5'
    ]_vars

C13_Witness ==
  /\ Ref5
  /\ events = 5
  /\ lastEvent = Event("disconnect", 1, "")

\* C14: an accepted join adds the connection to the member set and sends
\* one userCount, whose payload is the resulting member count, to every
\* member of the room, the joiner included (and to nobody else).
C14_JoinNotifiesEveryMember ==
  [][\A c \in Sockets : StepIs("join", c)
       => /\ c \notin Members(DEFAULT_ROOM)
          /\ Members(DEFAULT_ROOM)' = Members(DEFAULT_ROOM) \cup {c}
          /\ \A t \in Sockets :
               emitted'[t] =
                 IF t \in Members(DEFAULT_ROOM)'
                 THEN Append(emitted[t],
                             UserCountMsg(Cardinality(Members(DEFAULT_ROOM)'), c))
                 ELSE emitted[t]
    ]_vars

C14_Witness ==
  /\ lastEvent = Event("join", 3, "")
  /\ Members(DEFAULT_ROOM) = {2, 3}
  /\ Len(EventsOf(2, "userCount")) = 3
  /\ Len(EventsOf(3, "userCount")) = 1

\* C15: when a member leaves a room that still has another member, the
\* remaining member receives userDisconnected carrying the departed
\* connection id followed by userCount carrying the new member count, in
\* that order; the departing connection receives neither.
C15_LeaveNotifiesRemaining ==
  [][\A c \in Sockets :
       (StepIs("disconnect", c) /\ c \in Members(DEFAULT_ROOM)
          /\ Members(DEFAULT_ROOM) # {c})
         => /\ Members(DEFAULT_ROOM)' = Members(DEFAULT_ROOM) \ {c}
            /\ \A t \in Members(DEFAULT_ROOM)' :
                 emitted'[t] =
                   emitted[t] \o
                     <<Msg("userDisconnected", c, c),
                       UserCountMsg(Cardinality(Members(DEFAULT_ROOM)'), c)>>
            /\ emitted'[c] = emitted[c]
    ]_vars

C15_Witness ==
  /\ lastEvent = Event("disconnect", 2, "")
  /\ Members(DEFAULT_ROOM) = {1}
  /\ EventsOf(1, "userDisconnected") = <<Msg("userDisconnected", 2, 2)>>
  /\ EventsOf(2, "userDisconnected") = <<>>

\* C16: an announce or a leave for a room key that has no registry entry is
\* a silent no-op: it does not create the room, records no identifier,
\* changes no other room and sends no packet to any connection.
C16_UnknownRoomNoOp ==
  [][\A c \in Sockets :
       ((StepIs("lateRegisterPeerId", c) \/ StepIs("duplicateDisconnect", c))
          /\ ~InRegistry(DEFAULT_ROOM))
         => /\ rooms' = rooms
            /\ ~InRegistry(DEFAULT_ROOM)'
            /\ emitted' = emitted
    ]_vars

C16_Witness ==
  /\ ~InRegistry(DEFAULT_ROOM)
  /\ lastEvent = Event("lateRegisterPeerId", 1, "pA")
  /\ handlers = {1}

\* a room key that is never used by a connection
UNUSED_ROOM == "no-such-room"

\* C17: memberCount(roomKey) is exactly the size of the room's member set
\* (the connections that joined and have not left) and 0 for a room key
\* with no registry entry.
C17_MemberCount ==
  /\ getRoomUserCount(rooms, DEFAULT_ROOM) = Cardinality(handlers \cap connected)
  /\ getRoomUserCount(rooms, DEFAULT_ROOM) = Cardinality(Members(DEFAULT_ROOM))
  /\ ~InRegistry(DEFAULT_ROOM) => getRoomUserCount(rooms, DEFAULT_ROOM) = 0
  /\ getRoomUserCount(rooms, UNUSED_ROOM) = 0

C17_Witness ==
  /\ getRoomUserCount(rooms, DEFAULT_ROOM) = 2
  /\ lastEvent.name = "lateRegisterPeerId"
  /\ HasPeerId(DEFAULT_ROOM, lastEvent.socket)
  /\ lastEvent.socket \notin Members(DEFAULT_ROOM)

\* C18 as stated: an announce by a member that is alone in its room sends
\* no packet to anyone and records the identifier, and a peer that announces
\* for the first time while that identifier is recorded receives it.
C18_SoloAnnounceSilentAndKept ==
  [][\A c \in Sockets :
       /\ (StepIs("registerPeerId", c) /\ Members(DEFAULT_ROOM) = {c})
            => /\ emitted' = emitted
               /\ HasPeerId(DEFAULT_ROOM, c)'
               /\ rooms'[DEFAULT_ROOM].peerIds[c] = lastEvent'.payload
       /\ \A d \in Sockets \ {c} :
            (/\ StepIs("registerPeerId", d)
             /\ Members(DEFAULT_ROOM) = {c, d}
             /\ announces[d] = 0
             /\ HasPeerId(DEFAULT_ROOM, c))
              => RemoteFrom(d, c)' =
                   <<Msg("remotePeerId", rooms[DEFAULT_ROOM].peerIds[c], c)>>
    ]_vars

\* C18 as amended: the same, the later peer receiving the recorded
\* identifier when it is not the empty string.
C18_SoloAnnounceNonEmptyKept ==
  [][\A c \in Sockets :
       /\ (StepIs("registerPeerId", c) /\ Members(DEFAULT_ROOM) = {c})
            => /\ emitted' = emitted
               /\ HasPeerId(DEFAULT_ROOM, c)'
               /\ rooms'[DEFAULT_ROOM].peerIds[c] = lastEvent'.payload
       /\ \A d \in Sockets \ {c} :
            (/\ StepIs("registerPeerId", d)
             /\ Members(DEFAULT_ROOM) = {c, d}
             /\ announces[d] = 0
             /\ PeerIdTruthy(rooms[DEFAULT_ROOM], c))
              => RemoteFrom(d, c)' =
                   <<Msg("remotePeerId", rooms[DEFAULT_ROOM].peerIds[c], c)>>
    ]_vars

C18_Witness ==
  /\ events = 4
  /\ lastEvent = Event("registerPeerId", 2, "pB")
  /\ Members(DEFAULT_ROOM) = {1, 2}
  /\ announces[1] = 1
  /\ emitted[2] = <<UserCountMsg(2, 2), Msg("remotePeerId", "pA", 1)>>

\* sockets that joined the room and whose disconnect was processed
Left == handlers \ connected
\* the room record holds nothing about socket s: no identifier, no sent-to
\* set of its own, no occurrence in another sent-to set
NoTraceOf(room, s) ==
  /\ ~MapHas(room.peerIds, s)
  /\ ~MapHas(room.peerIdsSent, s)
  /\ \A k \in DOMAIN room.peerIdsSent : s \notin room.peerIdsSent[k]

\* C19 as stated: a participant that reconnects starts with clean
\* bookkeeping: when, after leave(c), a new connection c' joins the room,
\* no identifier record and no sent-to set mentions c, c' has no recorded
\* identifier and no sent-to entries; and when c' announces, c' and the
\* remaining member r, whose identifier is still recorded from before, are
\* each delivered the other's identifier exactly once.
C19_ReconnectCleanBookkeeping ==
  [][\A n \in Sockets :
       /\ (StepIs("join", n) /\ Left # {})
            => /\ \A c \in Left : NoTraceOf(rooms'[DEFAULT_ROOM], c)
               /\ NoTraceOf(rooms'[DEFAULT_ROOM], n)
       /\ \A r \in Sockets \ {n} :
            (/\ StepIs("registerPeerId", n)
             /\ announces[n] = 0
             /\ Left # {}
             /\ Members(DEFAULT_ROOM) = {r, n}
             /\ HasPeerId(DEFAULT_ROOM, r))
              => /\ RemoteFrom(n, r)' =
                      <<Msg("remotePeerId", rooms[DEFAULT_ROOM].peerIds[r], r)>>
                 /\ RemoteFrom(r, n)' =
                      <<Msg("remotePeerId", lastEvent'.payload, n)>>
    ]_vars

\* C19 as amended: the same, the remaining member's recorded identifier not
\* being the empty string.
C19_ReconnectCleanNonEmpty ==
  [][\A n \in Sockets :
       /\ (StepIs("join", n) /\ Left # {})
            => /\ \A c \in Left : NoTraceOf(rooms'[DEFAULT_ROOM], c)
               /\ NoTraceOf(rooms'[DEFAULT_ROOM], n)
       /\ \A r \in Sockets \ {n} :
            (/\ StepIs("registerPeerId", n)
             /\ announces[n] = 0
             /\ Left # {}
             /\ Members(DEFAULT_ROOM) = {r, n}
             /\ PeerIdTruthy(rooms[DEFAULT_ROOM], r))
              => /\ RemoteFrom(n, r)' =
                      <<Msg("remotePeerId", rooms[DEFAULT_ROOM].peerIds[r], r)>>
                 /\ RemoteFrom(r, n)' =
                      <<Msg("remotePeerId", lastEvent'.payload, n)>>
    ]_vars

C19_Witness ==
  /\ lastEvent = Event("registerPeerId", 3, "pB")
  /\ Members(DEFAULT_ROOM) = {1, 3}
  /\ Left = {2}
  /\ announces = [s \in Sockets |-> IF s \in {1, 2, 3} THEN 1 ELSE 0]
  /\ Delivered(1, 2) = 1 /\ Delivered(2, 1) = 1
  /\ Delivered(1, 3) = 1 /\ Delivered(3, 1) = 1

\* C20: a connection that joins and then disconnects without ever having
\* announced causes no remotePeerId delivery: it is sent none, no packet
\* carries an identifier of it, and neither its join nor its disconnect
\* adds a remotePeerId to any connection's packets.
C20_SilentWithoutAnnounce ==
  /\ [](\A c \in handlers :
          announces[c] = 0
            => /\ EventsOf(c, "remotePeerId") = <<>>
               /\ \A t \in Sockets : Delivered(t, c) = 0)
  /\ [][\A c \in Sockets :
          ((StepIs("join", c) \/ StepIs("disconnect", c)) /\ announces'[c] = 0)
            => \A t \in Sockets :
                 EventsOf(t, "remotePeerId")' = EventsOf(t, "remotePeerId")
       ]_vars

C20_Witness ==
  /\ lastEvent = Event("disconnect", 2, "")
  /\ announces[2] = 0
  /\ Members(DEFAULT_ROOM) = {1}
  /\ PeerIdTruthy(rooms[DEFAULT_ROOM], 1)
  /\ emitted[2] = <<UserCountMsg(2, 2)>>

\* C21: a mediaToggle event from a member is forwarded with an unchanged
\* payload to the other member of the room and not to the sender, and
\* leaves members, identifiers and sent-to sets unchanged; every toggle is
\* forwarded, a repeated one included.
C21_MediaToggleForwarded ==
  [][\A c \in Sockets : StepIs("mediaToggle", c)
       => /\ c \in Members(DEFAULT_ROOM)
          /\ rooms' = rooms
          /\ \E d \in ToggleValues : \A t \in Sockets :
               emitted'[t] =
                 IF t \in Members(DEFAULT_ROOM) \ {c}
                 THEN Append(emitted[t], Msg("mediaToggle", d, c))
                 ELSE emitted[t]
    ]_vars

C21_Witness ==
  /\ lastEvent = Event("mediaToggle", 1, "")
  /\ Members(DEFAULT_ROOM) = {1, 2}
  /\ Len(EventsOf(2, "mediaToggle")) = 2
  /\ Len(EventsOf(1, "mediaToggle")) = 0
  /\ HasPeerId(DEFAULT_ROOM, 1)

\* C22: the sent-to bookkeeping mirrors the delivery history: for every
\* ordered pair (S, R) of distinct current members, R is in the sent-to set
\* keyed by S if and only if a remotePeerId carrying S's identifier has been
\* delivered to R; after an announce that delivers in both directions both
\* ordered pairs are recorded.
C22_SentToMirrorsDeliveries ==
  \A s \in Members(DEFAULT_ROOM) : \A r \in Members(DEFAULT_ROOM) \ {s} :
    (MapHas(rooms[DEFAULT_ROOM].peerIdsSent, s)
       /\ r \in rooms[DEFAULT_ROOM].peerIdsSent[s])
    <=> Delivered(r, s) >= 1

\* the packets appended to the sequence of socket t by the step being taken
NewPackets(t) == SubSeq(emitted'[t], Len(emitted[t]) + 1, Len(emitted'[t]))
\* the sent-to sets of a room, an absent one read as empty
SentTo(room, s) == IF MapHas(room.peerIdsSent, s) THEN room.peerIdsSent[s] ELSE {}

\* C23 as stated: when a member announces while the other member O has no
\* recorded identifier, nothing is delivered in either direction and
\* nothing is marked as sent; the exchange then completes, once per
\* direction, on O's own next announce.
C23_SkipThenCompleteOnOthersAnnounce ==
  [][\A x \in Sockets : \A o \in Sockets \ {x} :
       /\ (/\ StepIs("registerPeerId", x)
           /\ Members(DEFAULT_ROOM) = {x, o}
           /\ ~HasPeerId(DEFAULT_ROOM, o))
            => /\ emitted' = emitted
               /\ SentTo(rooms'[DEFAULT_ROOM], x) = {}
               /\ SentTo(rooms'[DEFAULT_ROOM], o) = {}
       /\ (/\ StepIs("registerPeerId", o)
           /\ Members(DEFAULT_ROOM) = {x, o}
           /\ ~HasPeerId(DEFAULT_ROOM, o)
           /\ HasPeerId(DEFAULT_ROOM, x))
            => /\ RemoteFrom(o, x)' =
                    <<Msg("remotePeerId", rooms[DEFAULT_ROOM].peerIds[x], x)>>
               /\ RemoteFrom(x, o)' =
                    <<Msg("remotePeerId", lastEvent'.payload, o)>>
    ]_vars

\* C23 as amended: the same, the exchange completing on O's announce when
\* the first member's recorded identifier is not the empty string.
C23_SkipThenCompleteNonEmpty ==
  [][\A x \in Sockets : \A o \in Sockets \ {x} :
       /\ (/\ StepIs("registerPeerId", x)
           /\ Members(DEFAULT_ROOM) = {x, o}
           /\ ~HasPeerId(DEFAULT_ROOM, o))
            => /\ emitted' = emitted
               /\ SentTo(rooms'[DEFAULT_ROOM], x) = {}
               /\ SentTo(rooms'[DEFAULT_ROOM], o) = {}
       /\ (/\ StepIs("registerPeerId", o)
           /\ Members(DEFAULT_ROOM) = {x, o}
           /\ ~HasPeerId(DEFAULT_ROOM, o)
           /\ PeerIdTruthy(rooms[DEFAULT_ROOM], x))
            => /\ RemoteFrom(o, x)' =
                    <<Msg("remotePeerId", rooms[DEFAULT_ROOM].peerIds[x], x)>>
               /\ RemoteFrom(x, o)' =
                    <<Msg("remotePeerId", lastEvent'.payload, o)>>
    ]_vars

C23_Witness ==
  /\ lastEvent = Event("registerPeerId", 1, "pA")
  /\ rooms = (DEFAULT_ROOM :>
                [users |-> <<1, 2>>,
                 peerIds |-> 1 :> "pA" @@ 2 :> "pB",
                 peerIdsSent |-> 1 :> {2} @@ 2 :> {}])
  /\ announces[1] = 1 /\ announces[2] = 2
  /\ Delivered(1, 2) = 1 /\ Delivered(2, 1) = 1

\* C24: announce overwrites: the identifier recorded for a member is the
\* one given in its most recent announce (an announce records its payload
\* and no other step changes the record of a socket that stays recorded),
\* and every remotePeerId delivered carries the sender's identifier as
\* recorded at the moment of delivery.
C24_AnnounceOverwrites ==
  [][/\ \A c \in Sockets : StepIs("registerPeerId", c)
          => /\ HasPeerId(DEFAULT_ROOM, c)'
             /\ rooms'[DEFAULT_ROOM].peerIds[c] = lastEvent'.payload
     /\ \A k \in Sockets :
          (HasPeerId(DEFAULT_ROOM, k) /\ HasPeerId(DEFAULT_ROOM, k)'
             /\ ~StepIs("registerPeerId", k))
            => rooms'[DEFAULT_ROOM].peerIds[k] = rooms[DEFAULT_ROOM].peerIds[k]
     /\ \A t \in Sockets : \A i \in 1..Len(NewPackets(t)) :
          NewPackets(t)[i].ev = "remotePeerId"
            => /\ InRegistry(DEFAULT_ROOM)'
               /\ MapHas(rooms'[DEFAULT_ROOM].peerIds, NewPackets(t)[i].src)
               /\ NewPackets(t)[i].payload =
                    rooms'[DEFAULT_ROOM].peerIds[NewPackets(t)[i].src]
    ]_vars

C24_Witness ==
  /\ lastEvent = Event("registerPeerId", 2, "pA")
  /\ announces[1] = 2 /\ announces[2] = 1
  /\ PeerIdTruthy(rooms[DEFAULT_ROOM], 1)
  /\ rooms[DEFAULT_ROOM].peerIds[1] = "pB"
  /\ emitted[1] = <<UserCountMsg(1, 1), UserCountMsg(2, 2),
                    Msg("remotePeerId", "pA", 2)>>
  /\ emitted[2] = <<UserCountMsg(2, 2), Msg("remotePeerId", "pB", 1)>>

\* C25: join is accepted exactly when the room holds fewer than 2 members
\* before the call (the room being created if absent); an accepted join
\* adds only the joining connection to the member set, leaves the existing
\* member, all recorded identifiers and all sent-to sets unchanged, and
\* sends no remotePeerId.
C25_JoinAcceptedIffRoom ==
  [][nextSocket' = nextSocket + 1
       => LET n == nextSocket
              before == IF InRegistry(DEFAULT_ROOM)
                        THEN rooms[DEFAULT_ROOM] ELSE NewRoom
          IN /\ StepIs("join", n) \/ StepIs("joinRejected", n)
             /\ StepIs("join", n) <=> getRoomUserCount(rooms, DEFAULT_ROOM) < 2
             /\ n \in handlers' <=> StepIs("join", n)
             /\ StepIs("join", n)
                  => /\ InRegistry(DEFAULT_ROOM)'
                     /\ rooms'[DEFAULT_ROOM] =
                          [before EXCEPT !.users = Append(@, n)]
                     /\ \A t \in Sockets :
                          EventsOf(t, "remotePeerId")' = EventsOf(t, "remotePeerId")
    ]_vars

C25_Witness ==
  /\ lastEvent = Event("join", 3, "")
  /\ InRegistry(DEFAULT_ROOM)
  /\ rooms[DEFAULT_ROOM] =
       [users |-> <<2, 3>>, peerIds |-> 2 :> "pB", peerIdsSent |-> 2 :> {}]
  /\ Delivered(2, 1) = 1

\* the sockets an event of the given name can come from in room roomId: the
\* new connection fresh for a join, an open member otherwise
EventSockets(name, roomId, fresh) ==
  IF name = "join" THEN {fresh} ELSE Members(roomId) \cap connected
\* the room key of the event handled by the step being taken
StepRoom ==
  IF lastEvent'.name \in {"join", "joinRejected"}
  THEN lastEvent'.payload ELSE RoomOfSocket(lastEvent'.socket)
\* one event of DEFAULT_ROOM and one of ROOM_2 give the same world in either
\* processing order
EventsCommute(n1, s1, p1, n2, s2, p2, d) ==
  HandleEvent(HandleEvent(World, n1, s1, DEFAULT_ROOM, p1, d),
              n2, s2, ROOM_2, p2, d)
  = HandleEvent(HandleEvent(World, n2, s2, ROOM_2, p2, d),
                n1, s1, DEFAULT_ROOM, p1, d)

\* C26: rooms are independent: a join, announce, leave or mediaToggle for
\* room key R leaves members, identifiers and sent-to sets of every other
\* room key unchanged and sends nothing to members of other rooms, and two
\* events of different rooms give the same registry and the same packet
\* sequences in either processing order.
C26_RoomsIndependent ==
  /\ [][lastEvent' # lastEvent
          => \A r2 \in RoomKeys \ {StepRoom} :
               /\ InRegistry(r2)' <=> InRegistry(r2)
               /\ InRegistry(r2) => rooms'[r2] = rooms[r2]
               /\ \A t \in Members(r2) : emitted'[t] = emitted[t]
       ]_vars
  /\ [](\A n1 \in EventNames, n2 \in EventNames, d \in ToggleValues :
          \A s1 \in EventSockets(n1, DEFAULT_ROOM, nextSocket) :
            \A s2 \in EventSockets(n2, ROOM_2, nextSocket + 1) :
              \A p1 \in (IF n1 = "registerPeerId" THEN PeerIdValues ELSE {""}) :
                \A p2 \in (IF n2 = "registerPeerId" THEN PeerIdValues ELSE {""}) :
                  EventsCommute(n1, s1, p1, n2, s2, p2, d))

C26_Witness ==
  /\ lastEvent = Event("disconnect", 1, "")
  /\ Members(DEFAULT_ROOM) = {2}
  /\ Members(ROOM_2) = {3}
  /\ HasPeerId(ROOM_2, 3)
  /\ emitted[3] = <<UserCountMsg(1, 3)>>

\* C27: a connection whose join was rejected never reaches the exchange
\* engine or the registry again: a later registerPeerId, mediaToggle or
\* disconnect event of that connection changes no room state and sends
\* nothing to anyone (no userDisconnected and no userCount to the two
\* members in particular).
C27_RejectedSocketIsInert ==
  [][\A c \in Sockets :
       (WasRejected(c) /\ lastEvent'.socket = c
          /\ lastEvent'.name \in SocketEventNames)
         => /\ rooms' = rooms
            /\ emitted' = emitted
            /\ connected' = connected /\ sids' = sids
    ]_vars

C27_Witness ==
  /\ lastEvent = Event("disconnect", 3, "")
  /\ WasRejected(3)
  /\ Members(DEFAULT_ROOM) = {1, 2}
  /\ Delivered(1, 2) = 1
  /\ EventsOf(1, "userCount") = <<UserCountMsg(1, 1), UserCountMsg(2, 2)>>

\* C28: after any sequence of accepted joins, rejected joins, announces and
\* leaves, the userCount most recently received by each current member
\* carries the room's current member count, and every membership change is
\* followed by a userCount to every member present after the change.
C28_LastUserCountIsCurrent ==
  /\ [](\A m \in Members(DEFAULT_ROOM) :
          LET uc == EventsOf(m, "userCount")
          IN /\ Len(uc) >= 1
             /\ uc[Len(uc)].payload = getRoomUserCount(rooms, DEFAULT_ROOM))
  /\ [][Members(DEFAULT_ROOM)' # Members(DEFAULT_ROOM)
          => \A m \in Members(DEFAULT_ROOM)' :
               /\ Len(NewPackets(m)) >= 1
               /\ NewPackets(m)[Len(NewPackets(m))] =
                    UserCountMsg(Cardinality(Members(DEFAULT_ROOM)'),
                                 lastEvent'.socket)
       ]_vars

C28_Witness ==
  /\ lastEvent = Event("disconnect", 2, "")
  /\ Members(DEFAULT_ROOM) = {1}
  /\ Rejected = {3}
  /\ EventsOf(1, "userCount") =
       <<UserCountMsg(1, 1), UserCountMsg(2, 2), UserCountMsg(1, 2)>>

\* C29: with an announce possibly processed after the announcing
\* connection's leave, every connection that has a recorded identifier or a
\* sent-to set in a room is a current member of that room, and every
\* sent-to set contains only current members other than its owner.
C29_BookkeepingOnlyForMembers ==
  \A roomId \in DOMAIN rooms :
    LET room == rooms[roomId]
    IN /\ DOMAIN room.peerIds \subseteq SeqToSet(room.users)
       /\ DOMAIN room.peerIdsSent \subseteq SeqToSet(room.users)
       /\ \A k \in DOMAIN room.peerIdsSent :
            room.peerIdsSent[k] \subseteq SeqToSet(room.users) \ {k}

\* C30: with an announce possibly processed after the announcing
\* connection's leave while the other member is still in the room, every
\* remotePeerId delivered is addressed to a connection that is a member of
\* the room at that moment and carries the recorded identifier of a
\* different connection that is also a member at that moment.
C30_DeliveriesBetweenMembers ==
  [][\A t \in Sockets : \A i \in 1..Len(NewPackets(t)) :
       NewPackets(t)[i].ev = "remotePeerId"
         => /\ t \in Members(DEFAULT_ROOM)'
            /\ NewPackets(t)[i].src \in Members(DEFAULT_ROOM)' \ {t}
            /\ MapHas(rooms'[DEFAULT_ROOM].peerIds, NewPackets(t)[i].src)
            /\ NewPackets(t)[i].payload =
                 rooms'[DEFAULT_ROOM].peerIds[NewPackets(t)[i].src]
    ]_vars

\* C31: the two directions of an exchange are first delivered in the same
\* announce step: for two current members A and B of a room, A has been
\* delivered B's identifier if and only if B has been delivered A's.
C31_BothDirectionsTogether ==
  /\ [](\A a \in Members(DEFAULT_ROOM) : \A b \in Members(DEFAULT_ROOM) \ {a} :
          Delivered(a, b) >= 1 <=> Delivered(b, a) >= 1)
  /\ [][\A a \in Members(DEFAULT_ROOM) : \A b \in Members(DEFAULT_ROOM) \ {a} :
          (Delivered(a, b) = 0 /\ Delivered(a, b)' >= 1)
            => /\ lastEvent'.name = "registerPeerId"
               /\ Delivered(b, a) = 0 /\ Delivered(b, a)' >= 1
       ]_vars

C31_Witness ==
  /\ lastEvent = Event("registerPeerId", 2, "")
  /\ Members(DEFAULT_ROOM) = {1, 2}
  /\ RemoteFrom(1, 2) = <<Msg("remotePeerId", "", 2)>>
  /\ RemoteFrom(2, 1) = <<Msg("remotePeerId", "pA", 1)>>

\* the announce being handled records its payload for socket c
RecordsPayload(c) ==
  /\ InRegistry(DEFAULT_ROOM)'
  /\ MapHas(rooms'[DEFAULT_ROOM].peerIds, c)
  /\ rooms'[DEFAULT_ROOM].peerIds[c] = lastEvent'.payload
\* member o has the empty string as its recorded identifier
RecordedEmpty(o) ==
  HasPeerId(DEFAULT_ROOM, o) /\ rooms[DEFAULT_ROOM].peerIds[o] = ""

\* C32 as stated: an announce of the empty string is recorded but treated
\* by the exchange as if the member had not announced: a peer announcing
\* afterwards skips that member (no delivery in either direction), so two
\* members that have both announced, one of them with the empty string,
\* never exchange identifiers.
C32_EmptyIdentifierNeverExchanged ==
  /\ [][\A c \in Sockets :
          /\ (StepIs("registerPeerId", c) /\ lastEvent'.payload = "")
               => RecordsPayload(c)
          /\ \A o \in Sockets \ {c} :
               (StepIs("registerPeerId", c)
                  /\ Members(DEFAULT_ROOM) = {c, o} /\ RecordedEmpty(o))
                 => emitted' = emitted
       ]_vars
  /\ [](\A a \in Members(DEFAULT_ROOM) : \A b \in Members(DEFAULT_ROOM) \ {a} :
          (announces[a] = 1 /\ announces[b] = 1
             /\ RecordedEmpty(a) /\ HasPeerId(DEFAULT_ROOM, b))
            => Delivered(a, b) = 0 /\ Delivered(b, a) = 0)

\* C32 as amended: the empty string is recorded and a peer announcing
\* afterwards skips that member; the announce of the empty string itself is
\* not skipped: when the other member has a non-empty identifier the
\* announcer is delivered it and the other member is delivered the empty
\* string.  Two members that both announced the empty string never exchange.
C32_EmptyIdentifierSkippedAsOther ==
  /\ [][\A c \in Sockets :
          /\ (StepIs("registerPeerId", c) /\ lastEvent'.payload = "")
               => RecordsPayload(c)
          /\ \A o \in Sockets \ {c} :
               /\ (StepIs("registerPeerId", c)
                     /\ Members(DEFAULT_ROOM) = {c, o} /\ RecordedEmpty(o))
                    => emitted' = emitted
               /\ (StepIs("registerPeerId", c) /\ lastEvent'.payload = ""
                     /\ announces[c] = 0
                     /\ Members(DEFAULT_ROOM) = {c, o}
                     /\ PeerIdTruthy(rooms[DEFAULT_ROOM], o))
                    => /\ RemoteFrom(o, c)' = <<Msg("remotePeerId", "", c)>>
                       /\ RemoteFrom(c, o)' =
                            <<Msg("remotePeerId",
                                  rooms[DEFAULT_ROOM].peerIds[o], o)>>
       ]_vars
  /\ [](\A a \in Members(DEFAULT_ROOM) : \A b \in Members(DEFAULT_ROOM) \ {a} :
          (announces[a] = 1 /\ announces[b] = 1
             /\ RecordedEmpty(a) /\ RecordedEmpty(b))
            => Delivered(a, b) = 0 /\ Delivered(b, a) = 0)

C32_Witness ==
  /\ lastEvent = Event("registerPeerId", 2, "pB")
  /\ Members(DEFAULT_ROOM) = {1, 2}
  /\ RecordedEmpty(1)
  /\ announces[1] = 1 /\ announces[2] = 1
  /\ emitted[1] = <<UserCountMsg(1, 1), UserCountMsg(2, 2)>>
  /\ emitted[2] = <<UserCountMsg(2, 2)>>

\* the state of the legacy server that corresponds to the state of the
\* current one: the same members per room, the same recorded identifiers,
\* the same transport state; its packet log is started empty so that the
\* log after one handler run holds the packets of that run
LegacyOf ==
  [rooms |-> [r \in DOMAIN rooms |-> rooms[r].users],
   peerIds |-> IF InRegistry(DEFAULT_ROOM)
               THEN rooms[DEFAULT_ROOM].peerIds ELSE EmptyMap,
   sids |-> sids, connected |-> connected,
   emitted |-> [s \in Sockets |-> <<>>]]

\* the legacy server handling, from LegacyOf, the event of the step being
\* taken: the world after it and whether the connection was accepted
LegacyStep ==
  LET socket == lastEvent'.socket
  IN CASE lastEvent'.name \in {"join", "joinRejected"} ->
            LegacyConnection([LegacyOf EXCEPT !.connected = @ \cup {socket}],
                             socket, DEFAULT_ROOM)
       [] lastEvent'.name = "registerPeerId" ->
            [w |-> LegacyRegisterPeerId(LegacyOf, socket, DEFAULT_ROOM,
                                        lastEvent'.payload),
             ret |-> TRUE]
       [] lastEvent'.name = "disconnect" ->
            [w |-> LegacyDisconnect(SocketClose(LegacyOf, socket), socket,
                                    DEFAULT_ROOM),
             ret |-> TRUE]
RemoteOnly(q) == SelectSeq(q, LAMBDA m : m.ev = "remotePeerId")

\* C33: on runs in which each connection announces at most once, the legacy
\* server and the current server accept and reject the same connections and
\* deliver the same remotePeerId packets (same receiver, same payload, same
\* count): from corresponding states every connect, registerPeerId and
\* disconnect event leads both to corresponding states, with the same
\* verdict on the connection and the same remotePeerId packets per socket.
C33_DedupRefinesLegacy ==
  [][(/\ lastEvent'.name \in {"join", "joinRejected", "registerPeerId",
                               "disconnect"}
      /\ \A s \in Sockets : announces'[s] <= 1)
       => /\ LegacyStep.ret <=> (lastEvent'.name # "joinRejected")
          /\ LegacyStep.w.rooms = LegacyOf'.rooms
          /\ LegacyStep.w.peerIds = LegacyOf'.peerIds
          /\ LegacyStep.w.connected = connected'
          /\ LegacyStep.w.sids = sids'
          /\ \A t \in Sockets :
               RemoteOnly(LegacyStep.w.emitted[t]) = RemoteOnly(NewPackets(t))
    ]_vars

C33_Witness ==
  /\ lastEvent = Event("registerPeerId", 3, "pA")
  /\ Members(DEFAULT_ROOM) = {1, 3}
  /\ announces = [s \in Sockets |-> IF s \in {1, 2, 3} THEN 1 ELSE 0]
  /\ RemoteOnly(emitted[1]) =
       <<Msg("remotePeerId", "pB", 2), Msg("remotePeerId", "pA", 3)>>
  /\ Len(RemoteOnly(emitted[3])) = 1

====
